---------------------------- MODULE Spec2Model ----------------------------
(***************************************************************************)
(* Model of navi_search/app.py: the ExpiringDict TTL cache kept in         *)
(* st.session_state.search_results, the request fingerprint                *)
(* (SearchRequest.search_url), fetch_search_results, the memoised          *)
(* search() and the two handlers search_preview and main/preview_frag.     *)
(*                                                                         *)
(* Python values are modelled as follows.                                  *)
(*   - a dict is a function whose DOMAIN is the set of keys present;       *)
(*   - an Optional value is a set with at most one element ({} is None);   *)
(*   - a URL is the string the code renders;                               *)
(*   - time.time() is the variable now, read once per handler.             *)
(*                                                                         *)
(* Spec is the application: script runs (main) and button clicks           *)
(* (search_preview) of a session, with the clock advancing in between.     *)
(* SpecDict is the ExpiringDict class alone, driven by arbitrary puts,     *)
(* subscript reads and membership tests.                                   *)
(***************************************************************************)
EXTENDS Integers, Sequences, FiniteSets, TLC

VARIABLES
    now,             \* time.time(), in seconds
    search_results,  \* session -> ExpiringDict (st.session_state.search_results)
    search_memo,     \* the st.cache_resource store of search(): args -> <<response, time>>
    fetch_calls,     \* number of search_engine.async_search invocations so far
    out,             \* what the last operation showed, returned or raised
    pending          \* session -> the search_preview call blocked in search(), if any

vars == <<now, search_results, search_memo, fetch_calls, out, pending>>

----------------------------------------------------------------------------
(* Program constants *)

SEARCH_RESULT_TTL_SECONDS == 120

\* @st.cache_resource(ttl=timedelta(days=1)) on search()
SEARCH_MEMO_TTL_SECONDS == 86400

supported_search_engines ==
    {"Google", "DuckDuckGo", "Baidu", "Google Scholar", "GitHub", "YouTube"}

----------------------------------------------------------------------------
(* Bounds of the model *)

\* async_search is invoked at most this many times
MaxFetchCalls == 2
\* the clock runs up to this many seconds, in steps of TickStep seconds
MaxClock == 240
TickStep == 120

Sessions == {"s1"}

\* the sessions of the runs in which two users are connected at once
UserSessions == {"s1", "s2"}

\* the requests made: <<engine, keyword, page, number of results>>.  "Bing" is
\* not registered; "" and " " are the blank keywords.
RequestInputs ==
    {<<"Google", "a", 1, 10>>, <<"Google", "a", 1, 50>>,
     <<"DuckDuckGo", "a", 1, 10>>, <<"DuckDuckGo", "a", 1, 50>>,
     <<"Google", "", 1, 10>>, <<"Google", " ", 1, 10>>,
     <<"Bing", "a", 1, 10>>, <<"Bing", "", 1, 10>>}

ResultSeqs == {<< >>, <<"r2", "r1">>}
TickSteps == {TickStep}

\* what search_engine.async_search can do
BackendOutcomes ==
    {[kind |-> "results", items |-> r, msg |-> ""] : r \in ResultSeqs}
    \cup {[kind |-> "NoResultsOrTrafficError", items |-> << >>, msg |-> "blocked"],
          [kind |-> "fault", items |-> << >>, msg |-> "timeout"]}

----------------------------------------------------------------------------
(* Python dict primitives *)

DictDel(d, key) == [k \in (DOMAIN d) \ {key} |-> d[k]]

DictPut(d, key, v) == [k \in (DOMAIN d) \cup {key} |-> IF k = key THEN v ELSE d[k]]

EmptyDict == [k \in {} |-> 0]

\* dict.get(key): the inherited C method, it does not go through the
\* overridden __getitem__; the stored (value, timestamp) tuple or None
DictGet(d, key) == IF key \in DOMAIN d THEN {d[key]} ELSE {}

----------------------------------------------------------------------------
(* class ExpiringDict: entries are <<value, timestamp>> *)

\* (variant: an entry exactly ttl old already counts as expired)
Expired_AtTtl(timestamp, t, ttl) == t - timestamp >= ttl

Expired(timestamp, t, ttl) == t - timestamp > ttl

\* (variant: a put keeps the value and timestamp of a key already stored)
SetItem_KeepsExisting(d, key, value, t) ==
    IF key \in DOMAIN d THEN d ELSE DictPut(d, key, <<value, t>>)

\* (variant: a put also sweeps every other entry that has expired)
SetItem_Sweeps(d, key, value, t) ==
    LET e == DictPut(d, key, <<value, t>>)
    IN  [j \in {key} \cup {i \in DOMAIN d : ~Expired(d[i][2], t, SEARCH_RESULT_TTL_SECONDS)} |-> e[j]]

\* __setitem__
SetItem(d, key, value, t) == DictPut(d, key, <<value, t>>)

\* (variant: an expired entry raises KeyError but is left in the dict)
GetItem_KeepsExpired(d, key, t, ttl) ==
    IF key \notin DOMAIN d
    THEN [dict |-> d, raised |-> TRUE, value |-> {}]
    ELSE IF t - d[key][2] > ttl
         THEN [dict |-> d, raised |-> TRUE, value |-> {}]
         ELSE [dict |-> d, raised |-> FALSE, value |-> {d[key][1]}]

\* __getitem__: the dict afterwards, whether KeyError was raised, the value
GetItem(d, key, t, ttl) ==
    IF key \notin DOMAIN d
    THEN [dict |-> d, raised |-> TRUE, value |-> {}]
    ELSE IF Expired(d[key][2], t, ttl)
         THEN [dict |-> DictDel(d, key), raised |-> TRUE, value |-> {}]
         ELSE [dict |-> d, raised |-> FALSE, value |-> {d[key][1]}]

\* (variant: a hit restarts the entry's lifetime, a sliding expiration)
Contains_Refreshes(d, key, t, ttl) ==
    IF key \notin DOMAIN d
    THEN [dict |-> d, result |-> FALSE]
    ELSE IF t - d[key][2] > ttl
         THEN [dict |-> DictDel(d, key), result |-> FALSE]
         ELSE [dict |-> DictPut(d, key, <<d[key][1], t>>), result |-> TRUE]

\* (variant: the membership test answers False for an expired entry but keeps it)
Contains_KeepsExpired(d, key, t, ttl) ==
    IF key \notin DOMAIN d
    THEN [dict |-> d, result |-> FALSE]
    ELSE [dict |-> d, result |-> ~(t - d[key][2] > ttl)]

\* __contains__: the dict afterwards and the answer
Contains(d, key, t, ttl) ==
    IF key \notin DOMAIN d
    THEN [dict |-> d, result |-> FALSE]
    ELSE IF Expired(d[key][2], t, ttl)
         THEN [dict |-> DictDel(d, key), result |-> FALSE]
         ELSE [dict |-> d, result |-> TRUE]

----------------------------------------------------------------------------
(* Engine registry and request fingerprint *)

\* (variant: the commented-out Baidu branch is active)
get_num_param_WithBaidu(engine, num_results) ==
    IF engine = "Google" THEN [num |-> num_results]
    ELSE IF engine = "Baidu" THEN [rn |-> num_results]
    ELSE << >>

\* SearchRequest.get_num_param: the keyword arguments passed on to the engine
get_num_param(engine, num_results) ==
    IF engine = "Google" THEN [num |-> num_results] ELSE << >>

\* urlencode of a query value (quote_plus): a blank becomes "+"
UrlQuote(s) == IF s = " " THEN "+" ELSE s

\* GoogleSearch.get_params, rendered by urlencode in insertion order
GoogleParams(query, page, kwargs) ==
    "start=" \o ToString((page - 1) * 10)
    \o "&q=" \o UrlQuote(query)
    \o "&gbv=1"
    \o (IF "num" \in DOMAIN kwargs /\ kwargs["num"] # 0
        THEN "&num=" \o ToString(kwargs["num"])
        ELSE "")

\* BaiduSearch.get_params
BaiduParams(query, page, kwargs) ==
    "wd=" \o UrlQuote(query)
    \o "&pn=" \o ToString((page - 1) * 10)
    \o "&oq=" \o UrlQuote(query)
    \o (IF "rn" \in DOMAIN kwargs /\ kwargs["rn"] # 0
        THEN "&rn=" \o ToString(kwargs["rn"])
        ELSE "")

\* make_search_url for a registered engine: _search_engines[engine].get_search_url.
\* The engines that do not override get_params render the keyword and the page
\* and take no other keyword argument.
make_search_url(engine, keyword, page, kwargs) ==
    IF engine = "Google"
    THEN "https://www.google.com/search?" \o GoogleParams(keyword, page, kwargs)
    ELSE IF engine = "Baidu"
    THEN "https://www.baidu.com/s?" \o BaiduParams(keyword, page, kwargs)
    ELSE engine \o "?q=" \o UrlQuote(keyword) \o "&page=" \o ToString(page)

\* SearchRequest.__init__ (engine registered); __eq__ and __hash__ use search_url
SearchRequest(engine, keyword, page, num_results) ==
    [engine |-> engine,
     query_keyword |-> keyword,
     page |-> page,
     num_param |-> get_num_param(engine, num_results),
     search_url |-> make_search_url(engine, keyword, page,
                                    get_num_param(engine, num_results))]

\* (variant: a name that is not registered gets the default engine behaviour)
Registered_Any(engine) == TRUE

\* _search_engines[engine] raises KeyError for a name that is not registered
Registered(engine) == engine \in supported_search_engines

----------------------------------------------------------------------------
(* fetch_search_results and search *)

\* (variant: the provider's message is not copied into the response)
fetch_search_results_NoMessage(engine, keyword, page, num_results, backend) ==
    [search_request |-> SearchRequest(engine, keyword, page, num_results),
     results |-> IF backend.kind = "NoResultsOrTrafficError" THEN {}
                 ELSE {backend.items},
     error_info |-> ""]

\* fetch_search_results for a backend outcome that does not propagate
fetch_search_results(engine, keyword, page, num_results, backend) ==
    IF backend.kind = "NoResultsOrTrafficError"
    THEN [search_request |-> SearchRequest(engine, keyword, page, num_results),
          results |-> {},
          error_info |-> backend.msg]
    ELSE [search_request |-> SearchRequest(engine, keyword, page, num_results),
          results |-> {backend.items},
          error_info |-> ""]

\* the st.cache_resource entry of search() for these arguments, if still valid
\* (an entry lives for ttl = 1 day; max_entries = 100000 is far above the
\* number of distinct argument tuples)
MemoLookup(memo, args, t) ==
    IF args \in DOMAIN memo /\ ~(t - memo[args][2] >= SEARCH_MEMO_TTL_SECONDS)
    THEN {memo[args][1]}
    ELSE {}

\* (variant: every backend failure is turned into a response without results)
search_CatchesAll(memo, engine, keyword, page_num, num_results, backend, t) ==
    LET args == <<engine, keyword, page_num, num_results>>
        hit == MemoLookup(memo, args, t)
        res == [search_request |-> SearchRequest(engine, keyword, page_num, num_results),
                results |-> IF backend.kind = "results" THEN {backend.items} ELSE {},
                error_info |-> backend.msg]
    IN  IF hit # {}
        THEN [memo |-> memo, called |-> FALSE, res |-> hit]
        ELSE [memo |-> DictPut(memo, args, <<res, t>>), called |-> TRUE, res |-> {res}]

\* search(): the memo afterwards, whether the backend was called, the
\* response returned ({} when the backend failure propagated)
search(memo, engine, keyword, page_num, num_results, backend, t) ==
    LET args == <<engine, keyword, page_num, num_results>>
        hit == MemoLookup(memo, args, t)
        res == fetch_search_results(engine, keyword, page_num, num_results, backend)
    IN  IF hit # {}
        THEN [memo |-> memo, called |-> FALSE, res |-> hit]
        ELSE IF backend.kind = "fault"
        THEN [memo |-> memo, called |-> TRUE, res |-> {}]
        ELSE [memo |-> DictPut(memo, args, <<res, t>>), called |-> TRUE, res |-> {res}]

\* the outcomes async_search can have in this call of search(): when the memo
\* answers, the backend is not reached and its outcome is immaterial
BackendChoices(memo, engine, keyword, page_num, num_results, t) ==
    IF MemoLookup(memo, <<engine, keyword, page_num, num_results>>, t) # {}
    THEN {CHOOSE b \in BackendOutcomes : TRUE}
    ELSE BackendOutcomes

\* (variant: every response counts as having results)
Truthy_Always(results) == TRUE

\* (variant: only None counts as false, as with "is not None")
Truthy_NotNone(results) == results # {}

\* truth value of res.results: None and the empty sequence are false
Truthy(results) == \E r \in results : Len(r) > 0

----------------------------------------------------------------------------
(* State machine *)

\* out: the operation and its arguments, the key it used ("" when it built
\* none), the entry stored under that key when the operation began, the outcome
\* of async_search if the operation reached the backend, what the operation
\* showed, returned or raised, and the value returned or rendered
Out(op, args, key, before, backend, result, value) ==
    [op |-> op, args |-> args, key |-> key, before |-> before,
     backend |-> backend, result |-> result, value |-> value]

\* no session has a search_preview call in flight
NoPending == [s \in UserSessions |-> {}]

Init ==
    /\ now = 0
    /\ search_results = [s \in {} |-> EmptyDict]
    /\ search_memo = EmptyDict
    /\ fetch_calls = 0
    /\ out = Out("start", << >>, "", {}, {}, "", {})
    /\ pending = NoPending

\* the clock advances between handlers
Tick(d) ==
    /\ now + d <= MaxClock
    /\ now' = now + d
    /\ UNCHANGED <<search_results, search_memo, fetch_calls, out, pending>>

\* search_preview(search_engine, query_keyword, page_num, num_results), the
\* on_click handler of the search button, run in session s.  The outcome of
\* async_search is chosen where search() reaches the backend.
search_preview(s, search_engine, query_keyword, page_num, num_results) ==
    LET args == <<search_engine, query_keyword, page_num, num_results>> IN
    /\ s \in DOMAIN search_results
    /\ UNCHANGED <<now, pending>>
    /\ IF query_keyword = ""
       THEN /\ out' = Out("search_preview", args, "", {}, {}, "toast_enter_keyword", {})
            /\ UNCHANGED <<search_results, search_memo, fetch_calls>>
       ELSE IF ~Registered(search_engine)
       THEN /\ out' = Out("search_preview", args, "", {}, {}, "KeyError", {})
            /\ UNCHANGED <<search_results, search_memo, fetch_calls>>
       ELSE
         LET req == SearchRequest(search_engine, query_keyword, page_num, num_results)
             b == DictGet(search_results[s], req.search_url)
             c == Contains(search_results[s], req.search_url, now,
                           SEARCH_RESULT_TTL_SECONDS)
         IN  IF c.result
             THEN /\ out' = Out("search_preview", args, req.search_url, b, {},
                                 "toast_from_cache", {})
                  /\ search_results' = [search_results EXCEPT ![s] = c.dict]
                  /\ UNCHANGED <<search_memo, fetch_calls>>
             ELSE \E backend \in BackendChoices(search_memo, search_engine,
                                                query_keyword, page_num,
                                                num_results, now) :
                  LET r == search(search_memo, search_engine, query_keyword,
                                  page_num, num_results, backend, now)
                      called == IF r.called THEN {backend} ELSE {}
                  IN  /\ r.called => fetch_calls < MaxFetchCalls
                      /\ fetch_calls' = IF r.called THEN fetch_calls + 1
                                        ELSE fetch_calls
                      /\ search_memo' = r.memo
                      /\ IF r.res = {}
                         THEN /\ out' = Out("search_preview", args, req.search_url, b,
                                             called, "BackendFault", {})
                              /\ search_results' =
                                   [search_results EXCEPT ![s] = c.dict]
                         ELSE LET res == CHOOSE x \in r.res : TRUE
                              IN  IF Truthy(res.results)
                                  THEN /\ out' = Out("search_preview", args,
                                                      req.search_url, b, called,
                                                      "stored", {})
                                       /\ search_results' =
                                            [search_results EXCEPT ![s] =
                                               SetItem(c.dict,
                                                       res.search_request.search_url,
                                                       res, now)]
                                  ELSE /\ out' = Out("search_preview", args,
                                                     req.search_url, b, called,
                                                     IF res.error_info # ""
                                                     THEN "toast_no_results_and_error"
                                                     ELSE "toast_no_results", {})
                                       /\ search_results' =
                                            [search_results EXCEPT ![s] = c.dict]

\* preview_frag with the widget values main stored in st.session_state:
\* the dict afterwards and what the fragment did
preview_frag(d, selected_engine, query_keyword, page_num, num_results, t) ==
    LET req == SearchRequest(selected_engine, query_keyword, page_num, num_results)
        g == GetItem(d, req.search_url, t, SEARCH_RESULT_TTL_SECONDS)
    IN  IF DictGet(d, req.search_url) # {}
        THEN IF g.raised
             THEN [dict |-> g.dict, key |-> req.search_url, result |-> "KeyError",
                   value |-> {}]
             ELSE [dict |-> g.dict, key |-> req.search_url, result |-> "rendered",
                   value |-> g.value]
        ELSE [dict |-> d, key |-> req.search_url, result |-> "info_please_search",
              value |-> {}]

\* (variant: every run of main starts from a new ExpiringDict)
main_Recreates(s, selected_engine, query_keyword, page_num, num_results) ==
    LET d == EmptyDict
        p == preview_frag(d, selected_engine, query_keyword, page_num, num_results, now)
    IN  /\ Registered(selected_engine)
        /\ pending[s] = {}
        /\ search_results' = DictPut(search_results, s, p.dict)
        /\ out' = Out("main", <<selected_engine, query_keyword, page_num, num_results>>,
                      p.key, DictGet(d, p.key), {}, p.result, p.value)
        /\ UNCHANGED <<now, search_memo, fetch_calls, pending>>

\* main(): one script run of session s with the current widget values; a
\* session runs one script at a time
main(s, selected_engine, query_keyword, page_num, num_results) ==
    LET d == IF s \in DOMAIN search_results THEN search_results[s] ELSE EmptyDict
        p == preview_frag(d, selected_engine, query_keyword, page_num, num_results, now)
    IN  /\ Registered(selected_engine)
        /\ pending[s] = {}
        /\ search_results' = DictPut(search_results, s, p.dict)
        /\ out' = Out("main", <<selected_engine, query_keyword, page_num, num_results>>,
                      p.key, DictGet(d, p.key), {}, p.result, p.value)
        /\ UNCHANGED <<now, search_memo, fetch_calls, pending>>

Next ==
    \/ \E d \in TickSteps : Tick(d)
    \/ \E s \in Sessions, q \in RequestInputs :
            search_preview(s, q[1], q[2], q[3], q[4])
    \/ \E s \in Sessions, q \in RequestInputs :
            main(s, q[1], q[2], q[3], q[4])

Spec == Init /\ [][Next]_vars

TypeOK ==
    /\ now \in 0..MaxClock
    /\ fetch_calls \in 0..MaxFetchCalls
    /\ DOMAIN search_results \subseteq Sessions

----------------------------------------------------------------------------
(* The ExpiringDict class on its own: puts, subscript reads and membership  *)
(* tests in any order, on the dict main() creates with                      *)
(* ttl=SEARCH_RESULT_TTL_SECONDS.                                           *)

DictKeys ==
    {SearchRequest(q[1], q[2], q[3], q[4]).search_url :
        q \in {<<"Google", "a", 1, 10>>, <<"DuckDuckGo", "a", 1, 10>>}}

DictValues ==
    {fetch_search_results("Google", "a", 1, 10, b) :
        b \in {x \in BackendOutcomes : x.items # << >>}}
    \cup {fetch_search_results("DuckDuckGo", "a", 1, 10, b) :
        b \in {x \in BackendOutcomes : x.items # << >>}}

InitDict ==
    /\ now = 0
    /\ search_results = [s \in Sessions |-> EmptyDict]
    /\ search_memo = EmptyDict
    /\ fetch_calls = 0
    /\ out = Out("start", << >>, "", {}, {}, "", {})
    /\ pending = NoPending

\* search_results[key] = value
DictSetItem(s, key, value) ==
    /\ search_results' = [search_results EXCEPT ![s] = SetItem(@, key, value, now)]
    /\ out' = Out("setitem", << >>, key, DictGet(search_results[s], key), {}, "", {})
    /\ UNCHANGED <<now, search_memo, fetch_calls, pending>>

\* search_results[key]
DictGetItem(s, key) ==
    LET g == GetItem(search_results[s], key, now, SEARCH_RESULT_TTL_SECONDS)
    IN  /\ search_results' = [search_results EXCEPT ![s] = g.dict]
        /\ out' = Out("getitem", << >>, key, DictGet(search_results[s], key), {},
                      IF g.raised THEN "KeyError" ELSE "value", g.value)
        /\ UNCHANGED <<now, search_memo, fetch_calls, pending>>

\* key in search_results
DictContains(s, key) ==
    LET c == Contains(search_results[s], key, now, SEARCH_RESULT_TTL_SECONDS)
    IN  /\ search_results' = [search_results EXCEPT ![s] = c.dict]
        /\ out' = Out("contains", << >>, key, DictGet(search_results[s], key), {},
                      IF c.result THEN "True" ELSE "False", {})
        /\ UNCHANGED <<now, search_memo, fetch_calls, pending>>

NextDict ==
    \/ \E d \in TickSteps : Tick(d)
    \/ \E s \in Sessions, k \in DictKeys, v \in DictValues : DictSetItem(s, k, v)
    \/ \E s \in Sessions, k \in DictKeys : DictGetItem(s, k)
    \/ \E s \in Sessions, k \in DictKeys : DictContains(s, k)

SpecDict == InitDict /\ [][NextDict]_vars

----------------------------------------------------------------------------
(* Claims *)

\* the entry stored under key k in dict d is older than the cache's ttl at time t
Stale(d, k, t) == k \in DOMAIN d /\ t - d[k][2] > SEARCH_RESULT_TTL_SECONDS

\* every key other than k holds in e what it holds in d
SameElsewhere(d, e, k) ==
    /\ (DOMAIN d) \ {k} = (DOMAIN e) \ {k}
    /\ \A j \in (DOMAIN d) \ {k} : e[j] = d[j]

\* C1: a put stamps the entry with the time of the put; a subscript read of a
\* stored key at most ttl after that time returns the stored value and leaves
\* the dict as it was; a read more than ttl after it raises KeyError and
\* removes the entry (only that one), after which a membership test on the
\* key answers False.
C1_ReadWithinAndPastTtl ==
    [][\A s \in Sessions, k \in DictKeys :
         /\ \A v \in DictValues :
              DictSetItem(s, k, v) => search_results'[s][k] = <<v, now>>
         /\ (DictGetItem(s, k) /\ k \in DOMAIN search_results[s]) =>
              IF now - search_results[s][k][2] <= SEARCH_RESULT_TTL_SECONDS
              THEN /\ out'.result = "value"
                   /\ out'.value = {search_results[s][k][1]}
                   /\ search_results' = search_results
              ELSE /\ out'.result = "KeyError"
                   /\ out'.value = {}
                   /\ k \notin DOMAIN search_results'[s]
                   /\ SameElsewhere(search_results[s], search_results'[s], k)
                   /\ ~Contains(search_results'[s], k, now',
                                SEARCH_RESULT_TTL_SECONDS).result
      ]_vars

\* C1 witness: a read of an entry put more than ttl ago has raised KeyError
\* and the entry is gone
C1_Witness ==
    /\ out.op = "getitem"
    /\ out.result = "KeyError"
    /\ \E e \in out.before : now - e[2] > SEARCH_RESULT_TTL_SECONDS
    /\ \E s \in Sessions : out.key \notin DOMAIN search_results[s]

\* C7: at every time and for every key, the membership test answers True
\* exactly when a subscript read at that time returns a value; both leave the
\* same dict behind (an expired entry is deleted by either); and a read made
\* right after the membership test agrees with it.
C7_ContainsAgreesWithRead ==
    \A s \in DOMAIN search_results, k \in DictKeys :
        LET d == search_results[s]
            c == Contains(d, k, now, SEARCH_RESULT_TTL_SECONDS)
            g == GetItem(d, k, now, SEARCH_RESULT_TTL_SECONDS)
            g2 == GetItem(c.dict, k, now, SEARCH_RESULT_TTL_SECONDS)
        IN  /\ c.result <=> ~g.raised
            /\ c.dict = g.dict
            /\ Stale(d, k, now) => (~c.result /\ k \notin DOMAIN c.dict)
            /\ c.result <=> ~g2.raised
            /\ g2.dict = c.dict

\* C7 witness: a membership test on an expired entry has answered False and
\* deleted it
C7_Witness ==
    /\ out.op = "contains"
    /\ out.result = "False"
    /\ \E e \in out.before : now - e[2] > SEARCH_RESULT_TTL_SECONDS
    /\ \E s \in Sessions : out.key \notin DOMAIN search_results[s]

----------------------------------------------------------------------------
(* Claims about search_preview *)

\* the fingerprint of a request <<engine, keyword, page, number of results>>
Url(q) == SearchRequest(q[1], q[2], q[3], q[4]).search_url

\* the entry stored under key k in dict d is at most ttl old at time t
Fresh(d, k, t) == k \in DOMAIN d /\ t - d[k][2] <= SEARCH_RESULT_TTL_SECONDS

\* the request passes the keyword check and names a registered engine
Runs(q) == q[2] # "" /\ Registered(q[1])

\* the step is search_preview with arguments q in session s
PreviewStep(s, q) ==
    /\ out'.op = "search_preview"
    /\ out'.args = q
    /\ search_preview(s, q[1], q[2], q[3], q[4])

\* the response search() handed to search_preview in this step, if any
Returned(q) == MemoLookup(search_memo', q, now)

Positive(res) == \E r \in res.results : r # << >>

Negative(res) == res.results = {} \/ res.results = {<< >>}

\* C2: a search_preview that misses the cache and gets a response with at
\* least one result leaves exactly one new entry, under the request's
\* fingerprint, holding that response stamped with the current time, all
\* other keys unchanged; no step removes or changes an entry that is at most
\* ttl old; and a search_preview whose fingerprint has such an entry is a cache
\* hit that does not reach the backend and changes nothing.
C2_PositiveOutcomeCached ==
    [][/\ \A s \in DOMAIN search_results, q \in RequestInputs :
            (PreviewStep(s, q) /\ Runs(q)) =>
              LET d == search_results[s]
                  k == Url(q)
              IN  /\ Fresh(d, k, now) =>
                       /\ out'.result = "toast_from_cache"
                       /\ out'.backend = {}
                       /\ fetch_calls' = fetch_calls
                       /\ UNCHANGED <<search_results, search_memo>>
                  /\ \A res \in Returned(q) :
                       (~Fresh(d, k, now) /\ Positive(res)) =>
                         /\ k \in DOMAIN search_results'[s]
                         /\ search_results'[s][k] = <<res, now>>
                         /\ SameElsewhere(d, search_results'[s], k)
       /\ \A s \in DOMAIN search_results :
            \A k \in DOMAIN search_results[s] :
              Fresh(search_results[s], k, now) =>
                /\ s \in DOMAIN search_results'
                /\ k \in DOMAIN search_results'[s]
                /\ search_results'[s][k] = search_results[s][k]
      ]_vars

\* C2 witness: a request repeated exactly ttl after its response was cached
\* has been answered from the cache
C2_Witness ==
    /\ out.op = "search_preview"
    /\ out.result = "toast_from_cache"
    /\ out.backend = {}
    /\ fetch_calls = 1
    /\ \E e \in out.before :
         /\ now - e[2] = SEARCH_RESULT_TTL_SECONDS
         /\ \E s \in DOMAIN search_results :
              out.key \in DOMAIN search_results[s] /\ search_results[s][out.key] = e

\* C3 as stated: after a search_preview whose response has no results, the
\* TTL cache is identical to the TTL cache before the request.
C3_NegativeLeavesCacheIdentical ==
    [][\A s \in DOMAIN search_results, q \in RequestInputs :
         (PreviewStep(s, q) /\ Runs(q) /\ ~Fresh(search_results[s], Url(q), now)
            /\ \E res \in Returned(q) : Negative(res))
         => search_results' = search_results
      ]_vars

\* C3 amended: after a search_preview whose response has no results, no key
\* has gained or changed an entry; the only entry that can be gone is an
\* expired one under the request's own fingerprint, deleted by the membership
\* test.
C3_NegativeCreatesNoEntry ==
    [][\A s \in DOMAIN search_results, q \in RequestInputs :
         (PreviewStep(s, q) /\ Runs(q) /\ ~Fresh(search_results[s], Url(q), now)
            /\ \E res \in Returned(q) : Negative(res))
         => /\ DOMAIN search_results' = DOMAIN search_results
            /\ \A t \in DOMAIN search_results : t # s =>
                 search_results'[t] = search_results[t]
            /\ Url(q) \notin DOMAIN search_results'[s]
            /\ SameElsewhere(search_results[s], search_results'[s], Url(q))
      ]_vars

\* C3 witness: a request whose backend reported no results has ended with the
\* notice, and its fingerprint has no entry in the cache
C3_Witness ==
    /\ out.op = "search_preview"
    /\ out.result = "toast_no_results_and_error"
    /\ \E b \in out.backend : b.kind = "NoResultsOrTrafficError"
    /\ \E s \in DOMAIN search_results : out.key \notin DOMAIN search_results[s]

\* C4 as stated: when the last request ended with the no-results notice, the
\* same request made next reaches the backend again.
C4_RetryAfterNegativeRefetches ==
    [][\A s \in DOMAIN search_results, q \in RequestInputs :
         (/\ out.op = "search_preview"
          /\ out.args = q
          /\ out.result \in {"toast_no_results", "toast_no_results_and_error"}
          /\ PreviewStep(s, q))
         => fetch_calls' = fetch_calls + 1 /\ out'.backend # {}
      ]_vars

\* C5 as stated: when the response cached for a request is older than ttl, the
\* same request made again reaches the backend.
C5_RefetchAfterTtl ==
    [][\A s \in DOMAIN search_results, q \in RequestInputs :
         (/\ Runs(q)
          /\ Stale(search_results[s], Url(q), now)
          /\ q \in DOMAIN search_memo
          /\ search_memo[q][1] = search_results[s][Url(q)][1]
          /\ PreviewStep(s, q))
         => fetch_calls' = fetch_calls + 1 /\ out'.backend # {}
      ]_vars

\* a keyword that is empty or only whitespace
IsBlank(keyword) == keyword \in {"", " "}

\* C6 as stated: search_preview with a blank keyword ends with the keyword
\* notice, builds no fingerprint, does not reach the backend and leaves the
\* TTL cache alone.
C6_BlankKeywordShortCircuits ==
    [][\A s \in DOMAIN search_results, q \in RequestInputs :
         (PreviewStep(s, q) /\ IsBlank(q[2])) =>
            /\ out'.result = "toast_enter_keyword"
            /\ out'.key = ""
            /\ out'.backend = {}
            /\ UNCHANGED <<search_results, search_memo, fetch_calls>>
      ]_vars

\* the step is main with widget values q in session s
MainStep(s, q) ==
    /\ out'.op = "main"
    /\ out'.args = q
    /\ main(s, q[1], q[2], q[3], q[4])

\* C8 as stated: with an entry older than ttl under the fingerprint of the
\* widget values, preview_frag removes it and shows the 'please search' prompt.
C8_StaleEntryShowsPrompt ==
    [][\A s \in DOMAIN search_results, q \in RequestInputs :
         (MainStep(s, q) /\ Stale(search_results[s], Url(q), now)) =>
            /\ out'.result = "info_please_search"
            /\ Url(q) \notin DOMAIN search_results'[s]
      ]_vars

----------------------------------------------------------------------------
(* Claims about the fingerprint and the fetch *)

FingerprintKeywords == {"a", " "}
FingerprintPages == {1, 2}
FingerprintCounts == {1, 10, 50}

\* requests that differ from q in the number of results only
Siblings(q) == {r \in RequestInputs : r[1] = q[1] /\ r[2] = q[2] /\ r[3] = q[3] /\ r[4] # q[4]}

\* the fingerprint depends on the number of results exactly for Google
C9_CountMattersOnlyForGoogle ==
    \A e \in supported_search_engines, k \in FingerprintKeywords,
       p \in FingerprintPages, n1 \in FingerprintCounts, n2 \in FingerprintCounts :
        n1 # n2 =>
          ((Url(<<e, k, p, n1>>) # Url(<<e, k, p, n2>>)) <=> (e = "Google"))

\* a request whose sibling (other number of results) has a fresh entry in the
\* cache: a hit on that entry unless the engine is Google, where the sibling's
\* entry is another key and does not answer the request
C9_SiblingStep ==
    \A s \in DOMAIN search_results, q \in RequestInputs :
      (PreviewStep(s, q) /\ Runs(q)) =>
        \A r \in Siblings(q) :
          (/\ Fresh(search_results[s], Url(r), now)
           /\ r \in DOMAIN search_memo
           /\ search_memo[r][1] = search_results[s][Url(r)][1]) =>
             IF q[1] = "Google"
             THEN /\ Url(q) # Url(r)
                  /\ Url(q) \notin DOMAIN search_results[s] =>
                       out'.result # "toast_from_cache"
                  /\ search_results'[s][Url(r)] = search_results[s][Url(r)]
             ELSE /\ Url(q) = Url(r)
                  /\ out'.result = "toast_from_cache"
                  /\ out'.backend = {}
                  /\ out'.before = {search_results[s][Url(r)]}
                  /\ UNCHANGED <<search_results, search_memo, fetch_calls>>

\* C9: the fingerprint depends on the number of results if and only if the
\* engine is Google: for any other engine two requests that differ only in
\* the number of results have the same fingerprint, and the second within ttl
\* is a cache hit on the entry of the first; for Google they are two keys.
C9_FingerprintAndResultCount ==
    []C9_CountMattersOnlyForGoogle /\ [][C9_SiblingStep]_vars

\* C9 witness: a DuckDuckGo request for 50 results has been answered from the
\* entry stored by the request for 10 results (the only one ever fetched)
C9_Witness ==
    /\ out.op = "search_preview"
    /\ out.args = <<"DuckDuckGo", "a", 1, 50>>
    /\ out.result = "toast_from_cache"
    /\ <<"DuckDuckGo", "a", 1, 10>> \in DOMAIN search_memo
    /\ <<"DuckDuckGo", "a", 1, 50>> \notin DOMAIN search_memo
    /\ out.before = {search_memo[<<"DuckDuckGo", "a", 1, 10>>]}

\* C10: when the last operation reached the backend and the backend signalled
\* NoResultsOrTrafficError, nothing was raised and the response produced has
\* results None and the provider's message as error_info; when the backend
\* returned a sequence, the response carries that very sequence and an empty
\* error_info (and, if it was cached, so does the cached entry).
C10_FetchMapsBackendOutcome ==
    \A b \in out.backend :
        /\ b.kind = "NoResultsOrTrafficError" =>
             /\ out.result = "toast_no_results_and_error"
             /\ out.args \in DOMAIN search_memo
             /\ search_memo[out.args][1].results = {}
             /\ search_memo[out.args][1].error_info = b.msg
             /\ search_memo[out.args][1].search_request.search_url = out.key
        /\ b.kind = "results" =>
             /\ out.result \in {"stored", "toast_no_results"}
             /\ out.args \in DOMAIN search_memo
             /\ search_memo[out.args][1].results = {b.items}
             /\ search_memo[out.args][1].error_info = ""
             /\ search_memo[out.args][1].search_request.search_url = out.key
             /\ out.result = "stored" =>
                  \E s \in DOMAIN search_results :
                      /\ out.key \in DOMAIN search_results[s]
                      /\ search_results[s][out.key][1].results = {b.items}

\* C10 witness: the backend was blocked and the response records its message;
\* another response holds the two items in the order the backend gave them
C10_Witness ==
    /\ \E b \in out.backend : b.kind = "NoResultsOrTrafficError" /\ b.msg = "blocked"
    /\ out.args \in DOMAIN search_memo
    /\ search_memo[out.args][1].error_info = "blocked"
    /\ \E a \in DOMAIN search_memo : search_memo[a][1].results = {<<"r2", "r1">>}

----------------------------------------------------------------------------
(* Claims about failures *)

\* the step is a search_preview of session s with arguments q whose call of
\* async_search failed with something other than NoResultsOrTrafficError
FaultStep(s, q) ==
    /\ PreviewStep(s, q)
    /\ \E b \in out'.backend : b.kind = "fault"

\* C11 as stated: a backend fault propagates out of search_preview, produces
\* no response and leaves the TTL cache unchanged.
C11_FaultLeavesCacheUnchanged ==
    [][\A s \in DOMAIN search_results, q \in RequestInputs :
         FaultStep(s, q) =>
            /\ out'.result = "BackendFault"
            /\ search_results' = search_results
      ]_vars

\* C11 amended: a backend fault propagates out of search_preview: no response
\* is produced or memoised, no key of the TTL cache gains or changes an entry
\* (the request's own fingerprint has none afterwards: an expired entry under
\* it was deleted by the membership test), and the same request made next
\* reaches the backend again and is served by what it then returns.
C11_FaultAbortsOnlyTheRequest ==
    [][\A s \in DOMAIN search_results, q \in RequestInputs :
         /\ FaultStep(s, q) =>
              /\ out'.result = "BackendFault"
              /\ out'.value = {}
              /\ search_memo' = search_memo
              /\ fetch_calls' = fetch_calls + 1
              /\ DOMAIN search_results' = DOMAIN search_results
              /\ Url(q) \notin DOMAIN search_results'[s]
              /\ SameElsewhere(search_results[s], search_results'[s], Url(q))
         /\ (out.result = "BackendFault" /\ out.args = q /\ PreviewStep(s, q)) =>
              /\ out'.backend # {}
              /\ \A b \in out'.backend :
                   b.items # << >> =>
                     /\ out'.result = "stored"
                     /\ search_results'[s][Url(q)][1].results = {b.items}
      ]_vars

\* C11 witness: a request has failed with a backend fault while the entry
\* cached for another fingerprint stays in the cache
C11_Witness ==
    /\ out.op = "search_preview"
    /\ out.result = "BackendFault"
    /\ \E b \in out.backend : b.kind = "fault"
    /\ \E s \in DOMAIN search_results :
         \E k \in DOMAIN search_results[s] : k # out.key

----------------------------------------------------------------------------
(* Claims about the entries of the TTL cache *)

\* C12: a cache hit does not touch the entry: a search_preview answered by the
\* membership test and a preview_frag that reads a fresh entry leave the whole
\* cache as it was; the response and insertion time under a key change only
\* when search_preview stores a response after finding the old entry expired;
\* and an entry older than ttl answers neither a membership test nor a read.
C12_HitsDoNotRefresh ==
    [][/\ \A s \in DOMAIN search_results, q \in RequestInputs :
            LET d == search_results[s]
                k == Url(q)
            IN  /\ (PreviewStep(s, q) /\ Runs(q) /\ Fresh(d, k, now)) =>
                     /\ out'.result = "toast_from_cache"
                     /\ search_results' = search_results
                /\ (MainStep(s, q) /\ Fresh(d, k, now)) =>
                     /\ out'.result = "rendered"
                     /\ out'.value = {d[k][1]}
                     /\ search_results' = search_results
                /\ (PreviewStep(s, q) /\ Runs(q) /\ Stale(d, k, now)) =>
                     out'.result # "toast_from_cache"
                /\ (MainStep(s, q) /\ Stale(d, k, now)) =>
                     /\ out'.result # "rendered"
                     /\ k \notin DOMAIN search_results'[s]
       /\ \A s \in DOMAIN search_results :
            \A k \in DOMAIN search_results[s] :
              (k \in DOMAIN search_results'[s]
                 /\ search_results'[s][k] # search_results[s][k]) =>
                /\ Stale(search_results[s], k, now)
                /\ out'.result = "stored"
                /\ out'.key = k
      ]_vars

\* C12 witness: preview_frag has rendered an entry exactly ttl old and the
\* entry still carries its insertion time
C12_Witness ==
    /\ out.op = "main"
    /\ out.result = "rendered"
    /\ \E e \in out.before :
         /\ now - e[2] = SEARCH_RESULT_TTL_SECONDS
         /\ out.value = {e[1]}
         /\ \E s \in DOMAIN search_results :
              out.key \in DOMAIN search_results[s] /\ search_results[s][out.key] = e

\* C13: a put leaves exactly (value, time of the put) under the key, whether
\* the key was absent, fresh or expired before, and leaves every other key as
\* it was; a read of the key at any time up to ttl after the put returns that
\* value, and a read later than that raises KeyError.
C13_PutReplacesAndStamps ==
    [][\A s \in Sessions, k \in DictKeys, v \in DictValues :
         DictSetItem(s, k, v) =>
           LET e == search_results'[s]
           IN  /\ e[k] = <<v, now>>
               /\ DOMAIN e = DOMAIN search_results[s] \cup {k}
               /\ SameElsewhere(search_results[s], e, k)
               /\ \A t \in {now, now + 1, now + SEARCH_RESULT_TTL_SECONDS} :
                    GetItem(e, k, t, SEARCH_RESULT_TTL_SECONDS)
                      = [dict |-> e, raised |-> FALSE, value |-> {v}]
               /\ GetItem(e, k, now + SEARCH_RESULT_TTL_SECONDS + 1,
                          SEARCH_RESULT_TTL_SECONDS).raised
      ]_vars

\* C13 witness: a put has replaced an expired entry holding another value
C13_Witness ==
    /\ out.op = "setitem"
    /\ \E e \in out.before :
         /\ now - e[2] > SEARCH_RESULT_TTL_SECONDS
         /\ \E s \in Sessions :
              /\ out.key \in DOMAIN search_results[s]
              /\ search_results[s][out.key][2] = now
              /\ search_results[s][out.key][1] # e[1]
              /\ DOMAIN search_results[s] # {out.key}

\* C14: an entry leaves the cache only in a membership test or a subscript
\* read of its own key that finds it expired, and that step removes nothing
\* else; puts, operations on other keys and the passage of time remove
\* nothing, so an expired entry that is not read or tested stays stored.
C14_RemovedOnlyByOwnExpiredAccess ==
    [][\A s \in Sessions :
         \A k \in DOMAIN search_results[s] :
           k \notin DOMAIN search_results'[s] =>
             /\ Stale(search_results[s], k, now)
             /\ out'.op \in {"getitem", "contains"}
             /\ out'.key = k
             /\ out'.result \in {"KeyError", "False"}
             /\ search_results'[s] = DictDel(search_results[s], k)
      ]_vars

\* C14 witness: a membership test has removed the expired entry of its key
\* while an expired entry under another key is still stored
C14_Witness ==
    /\ out.op = "contains"
    /\ out.result = "False"
    /\ \E e \in out.before : now - e[2] > SEARCH_RESULT_TTL_SECONDS
    /\ \E s \in Sessions :
         /\ out.key \notin DOMAIN search_results[s]
         /\ \E j \in DOMAIN search_results[s] : Stale(search_results[s], j, now)

----------------------------------------------------------------------------
(* Claims about search_preview and preview_frag as a whole *)

\* C17: search_preview for an engine that is not registered and a non-empty
\* keyword raises the unknown-engine KeyError while building the fingerprint:
\* no key was built, the backend was not called and the TTL cache, the memo
\* and the fetch-call counter are unchanged; with an empty keyword it shows
\* the keyword notice instead, because the keyword check comes first.
C17_UnknownEngineFailsBeforeLookup ==
    [][\A s \in DOMAIN search_results, q \in RequestInputs :
         (PreviewStep(s, q) /\ q[1] \notin supported_search_engines) =>
            /\ out'.result = IF q[2] = "" THEN "toast_enter_keyword" ELSE "KeyError"
            /\ out'.key = ""
            /\ out'.before = {}
            /\ out'.backend = {}
            /\ UNCHANGED <<search_results, search_memo, fetch_calls>>
      ]_vars

\* C17 witness: the unknown-engine error was raised for a non-empty keyword
\* at a time the cache holds an entry and the backend has been called
C17_Witness ==
    /\ out.op = "search_preview"
    /\ out.result = "KeyError"
    /\ out.args[1] \notin supported_search_engines
    /\ out.args[2] # ""
    /\ fetch_calls > 0
    /\ \E s \in DOMAIN search_results : DOMAIN search_results[s] # {}

\* C18: every entry of the TTL cache holds a response with a non-empty result
\* sequence and empty error_info, is stored under the search_url of the
\* response's own search_request, and is stamped no later than the clock.
C18_EntriesArePositiveAndSelfKeyed ==
    \A s \in DOMAIN search_results :
      \A k \in DOMAIN search_results[s] :
        LET res == search_results[s][k][1]
            req == res.search_request
        IN  /\ res.results # {}
            /\ \A r \in res.results : Len(r) > 0
            /\ res.error_info = ""
            /\ req.search_url = k
            /\ k = make_search_url(req.engine, req.query_keyword, req.page,
                                   req.num_param)
            /\ search_results[s][k][2] <= now

\* C18 witness: a fetch has just ended without results and with an error
\* message while the cache holds an entry of an earlier request
C18_Witness ==
    /\ out.op = "search_preview"
    /\ out.result = "toast_no_results_and_error"
    /\ \E s \in DOMAIN search_results : DOMAIN search_results[s] # {}

\* C19 as stated: a run of preview_frag never ends in KeyError; it renders the
\* response read by the subscript or shows the 'please search' prompt.
C19_PreviewFragNeverRaises ==
    out.op = "main" => out.result \in {"rendered", "info_please_search"}

----------------------------------------------------------------------------
(* Several user sessions at once.  Each session runs one script at a time  *)
(* in its own thread and has its own st.session_state; the memo of         *)
(* search() belongs to the process.  A search_preview that misses its      *)
(* session's dict waits in search(); st.cache_resource computes a missing  *)
(* value under a lock, so calls of search() take effect one after another. *)

ConcurrentInputs ==
    {<<"DuckDuckGo", "a", 1, 10>>, <<"DuckDuckGo", "a", 1, 50>>,
     <<"Bing", "", 1, 10>>, <<"Bing", "a", 1, 10>>}

\* search_preview from its start to the call of search()
search_preview_begin(s, search_engine, query_keyword, page_num, num_results) ==
    LET args == <<search_engine, query_keyword, page_num, num_results>> IN
    /\ s \in DOMAIN search_results
    /\ pending[s] = {}
    /\ UNCHANGED <<now, search_memo, fetch_calls>>
    /\ IF query_keyword = ""
       THEN /\ out' = Out("search_preview_begin", args, "", {}, {},
                          "toast_enter_keyword", {})
            /\ UNCHANGED <<search_results, pending>>
       ELSE IF ~Registered(search_engine)
       THEN /\ out' = Out("search_preview_begin", args, "", {}, {}, "KeyError", {})
            /\ UNCHANGED <<search_results, pending>>
       ELSE
         LET req == SearchRequest(search_engine, query_keyword, page_num, num_results)
             b == DictGet(search_results[s], req.search_url)
             c == Contains(search_results[s], req.search_url, now,
                           SEARCH_RESULT_TTL_SECONDS)
         IN  /\ search_results' = [search_results EXCEPT ![s] = c.dict]
             /\ IF c.result
                THEN /\ out' = Out("search_preview_begin", args, req.search_url, b,
                                   {}, "toast_from_cache", {})
                     /\ UNCHANGED pending
                ELSE /\ out' = Out("search_preview_begin", args, req.search_url, b,
                                   {}, "miss", {})
                     /\ pending' = [pending EXCEPT ![s] = {args}]

\* search_preview from the call of search() to its end
search_preview_finish(s) ==
    /\ pending[s] # {}
    /\ LET args == CHOOSE a \in pending[s] : TRUE
           req == SearchRequest(args[1], args[2], args[3], args[4])
           b == DictGet(search_results[s], req.search_url)
       IN  \E backend \in BackendChoices(search_memo, args[1], args[2], args[3],
                                          args[4], now) :
             LET r == search(search_memo, args[1], args[2], args[3], args[4],
                             backend, now)
                 called == IF r.called THEN {backend} ELSE {}
             IN  /\ r.called => fetch_calls < MaxFetchCalls
                 /\ fetch_calls' = IF r.called THEN fetch_calls + 1 ELSE fetch_calls
                 /\ search_memo' = r.memo
                 /\ IF r.res = {}
                    THEN /\ out' = Out("search_preview_finish", args, req.search_url,
                                       b, called, "BackendFault", {})
                         /\ UNCHANGED search_results
                    ELSE LET res == CHOOSE x \in r.res : TRUE
                         IN  IF Truthy(res.results)
                             THEN /\ out' = Out("search_preview_finish", args,
                                                req.search_url, b, called,
                                                "stored", {})
                                  /\ search_results' =
                                       [search_results EXCEPT ![s] =
                                          SetItem(@, res.search_request.search_url,
                                                  res, now)]
                             ELSE /\ out' = Out("search_preview_finish", args,
                                                req.search_url, b, called,
                                                IF res.error_info # ""
                                                THEN "toast_no_results_and_error"
                                                ELSE "toast_no_results", {})
                                  /\ UNCHANGED search_results
    /\ pending' = [pending EXCEPT ![s] = {}]
    /\ UNCHANGED now

NextConc ==
    \/ \E d \in TickSteps : Tick(d)
    \/ \E s \in UserSessions, q \in ConcurrentInputs :
            search_preview_begin(s, q[1], q[2], q[3], q[4])
    \/ \E s \in UserSessions : search_preview_finish(s)
    \/ \E s \in UserSessions, q \in ConcurrentInputs :
            main(s, q[1], q[2], q[3], q[4])

SpecConc == Init /\ [][NextConc]_vars

\* the step is the start of search_preview with arguments q in session s
BeginStep(s, q) ==
    /\ out'.op = "search_preview_begin"
    /\ out'.args = q
    /\ search_preview_begin(s, q[1], q[2], q[3], q[4])

\* the step completes a request of session s that missed the TTL cache while
\* a request of another session with the same fingerprint had missed it and
\* not yet completed: that request is still waiting, or it was the last to
\* complete (out is unchanged since, so s was waiting then)
RacedFinish(s) ==
    /\ pending[s] # {}
    /\ \A a \in pending[s] :
         \/ \E t \in UserSessions \ {s} : \E c \in pending[t] : Url(c) = Url(a)
         \/ out.op = "search_preview_finish" /\ out.key = Url(a)
    /\ search_preview_finish(s)

\* C15 as stated: each of two concurrent requests with one fingerprint that
\* both missed the TTL cache calls the backend, and writes the response it
\* fetched itself over whatever is stored under the fingerprint.
C15_ConcurrentRequestsBothFetch ==
    [][\A s \in UserSessions :
         RacedFinish(s) =>
            /\ fetch_calls' = fetch_calls + 1
            /\ out'.backend # {}
            /\ \A b \in out'.backend :
                 b.items # << >> =>
                   \A a \in pending[s] :
                     search_results'[s][Url(a)] =
                        <<fetch_search_results(a[1], a[2], a[3], a[4], b), now>>
      ]_vars

====
